---- MODULE Spec2Model ----
(***************************************************************************)
(* Model of the np2vec corpus preparation pass                             *)
(* (solutions/set_expansion/prepare_data.py) and of the normalizer it      *)
(* calls (nlp_architect/utils/text.py).                                    *)
(*                                                                         *)
(* A Python str is a sequence of one-character strings.  The pass is the   *)
(* loop over the parsed lines (docs) and, inside it, the loop over the     *)
(* tokens of a doc; one action is one iteration of the token loop.         *)
(***************************************************************************)
EXTENDS Integers, Sequences, FiniteSets, TLC

VARIABLES
    grouping,            \* args.grouping
    mark_char,           \* args.mark_char
    np2count,            \* np2count : span text -> number of observations
    np2id,               \* np2id    : span text -> normalized key
    id2group,            \* id2group : normalized key -> list of span texts
    id2rep,              \* id2rep   : normalized key -> span text
    i,                   \* number of docs taken from nlp.pipe
    doc,                 \* the doc of the current iteration (None before the first)
    spans,               \* the spans of doc not yet popped
    span,                \* the active span, or None
    spanWritten,         \* the active span has been written
    tk,                  \* position of the token loop in doc (1-based)
    marked_corpus_file,  \* the write() calls made for the current line
    dumped,              \* the id2group, id2rep and np2id files, or None
    pc,                  \* "pipe", "tokens", "raised", "done"
    norm_call,           \* the last call of spacy_normalizer made on its own
    vocab,               \* Vocabulary._vocab : word -> id
    rev_vocab,           \* Vocabulary._rev_vocab : id -> word
    next,                \* Vocabulary.next
    vocab_call           \* the last call made on the Vocabulary

\* the state of nlp_architect/utils/text.py
lib == <<norm_call, vocab, rev_vocab, next, vocab_call>>

vars == <<grouping, mark_char, np2count, np2id, id2group, id2rep, i, doc,
          spans, span, spanWritten, tk, marked_corpus_file, dumped, pc, lib>>

tables == <<np2count, np2id, id2group, id2rep>>

None == [none |-> TRUE]

----------------------------------------------------------------------------
(* Bounds *)

\* number of lines of the corpus
MaxDocs == 2

\* number of words of a generated phrase
MaxWords == 3

\* number of characters of a generated lemma
MaxLemma == 3

\* number of characters of a text given to the normalizer on its own
MaxText == 3

\* greatest character offset of a span given without regard to the tokens
MaxOffset == 8

\* greatest start of a Vocabulary and greatest offset added to its ids, in
\* either direction
MaxShift == 2

\* add_vocab_offset is not called when it would take next beyond this
MaxId == 4

----------------------------------------------------------------------------
(* Python str operations *)

Whitespace == {" ", "\t", "\n"}

UpperCase == {"A", "B", "S", "P", "R", "O", "N"}

LowerCase == {"a", "b", "s"}

\* str.lower() on one character
lower(c) ==
    CASE c = "A" -> "a"
      [] c = "B" -> "b"
      [] c = "S" -> "s"
      [] c = "P" -> "p"
      [] c = "R" -> "r"
      [] c = "O" -> "o"
      [] c = "N" -> "n"
      [] OTHER -> c

\* sub in s
Contains(sub, s) ==
    \E k \in 1..(Len(s) - Len(sub) + 1) : SubSeq(s, k, k + Len(sub) - 1) = sub

\* s.endswith(suf)
EndsWith(s, suf) ==
    /\ Len(s) >= Len(suf)
    /\ SubSeq(s, Len(s) - Len(suf) + 1, Len(s)) = suf

RECURSIVE Replace(_, _, _)
\* s.replace(old, new): non-overlapping occurrences, left to right
Replace(s, old, new) ==
    IF Len(s) < Len(old) \/ Len(old) = 0 THEN s
    ELSE IF SubSeq(s, 1, Len(old)) = old
         THEN new \o Replace(SubSeq(s, Len(old) + 1, Len(s)), old, new)
         ELSE <<Head(s)>> \o Replace(Tail(s), old, new)

RECURSIVE SplitOn(_, _)
\* re.split / str.split(sep) on single separator characters: empty
\* fragments are kept
SplitOn(s, seps) ==
    IF \A k \in 1..Len(s) : s[k] \notin seps THEN <<s>>
    ELSE LET k == CHOOSE j \in 1..Len(s) :
                      /\ s[j] \in seps
                      /\ \A h \in 1..(j - 1) : s[h] \notin seps
         IN <<SubSeq(s, 1, k - 1)>> \o SplitOn(SubSeq(s, k + 1, Len(s)), seps)

\* filter(lambda x: len(x) != 0, pieces)
NonEmpty(pieces) == SelectSeq(pieces, LAMBDA x : Len(x) # 0)

\* s.split(): words separated by runs of whitespace
SplitWs(s) == NonEmpty(SplitOn(s, Whitespace))

RECURSIVE Strip(_)
\* s.strip()
Strip(s) ==
    IF Len(s) = 0 THEN s
    ELSE IF Head(s) \in Whitespace THEN Strip(Tail(s))
    ELSE IF s[Len(s)] \in Whitespace THEN Strip(SubSeq(s, 1, Len(s) - 1))
    ELSE s

RECURSIVE Join(_, _)
\* sep.join(pieces)
Join(pieces, sep) ==
    IF Len(pieces) = 0 THEN <<>>
    ELSE IF Len(pieces) = 1 THEN pieces[1]
    ELSE pieces[1] \o sep \o Join(Tail(pieces), sep)

\* s.isupper(): no lower-case character and at least one upper-case one
IsUpper(s) ==
    /\ \A k \in 1..Len(s) : s[k] \notin LowerCase
    /\ \E k \in 1..Len(s) : s[k] \in UpperCase

----------------------------------------------------------------------------
(* nlp_architect/utils/text.py *)

\* p = re.compile(r'[ \-,;.@&_]')
p == {" ", "-", ",", ";", ".", "@", "&", "_"}

Vowels == {"a", "e", "i", "o", "u", "y"}

\* stemmer.stem: nltk's EnglishStemmer on the characters of the model.  It
\* lower-cases the word, returns words of at most two characters as they
\* are, and removes a final "s" that follows a part holding a vowel not
\* immediately before the "s" (step 1a); "ss" and "us" are kept.
stem(word) ==
    LET w == [k \in 1..Len(word) |-> lower(word[k])]
    IN IF Len(w) <= 2 THEN w
       ELSE IF /\ w[Len(w)] = "s"
               /\ w[Len(w) - 1] \notin {"s", "u"}
               /\ \E k \in 1..(Len(w) - 2) : w[k] \in Vowels
            THEN SubSeq(w, 1, Len(w) - 1)
            ELSE w

\* spacy_lemmatizer(t, u'NOUN')[0]: the noun rules on the characters of the
\* model: lower-case, and a final "s" after another character is removed
spacy_lemmatizer(t) ==
    LET w == [k \in 1..Len(t) |-> lower(t[k])]
    IN IF Len(w) > 1 /\ w[Len(w)] = "s" THEN SubSeq(w, 1, Len(w) - 1) ELSE w

\* NormalizerRewrites with "and" in place of "or"
NormalizerRewrites_and(text) ==
    /\ ~IsUpper(text)
    /\ ~EndsWith(text, <<"S">>)
    /\ ~(Len(SplitWs(text)) = 1)

\* the condition under which spacy_normalizer rewrites the text
NormalizerRewrites(text) ==
    \/ ~IsUpper(text)
    \/ ~EndsWith(text, <<"S">>)
    \/ ~(Len(SplitWs(text)) = 1)

\* spacy_normalizer with the lemma split at runs of whitespace
spacy_normalizer_ws(text, lemma) ==
    IF NormalizerRewrites(text)
    THEN LET tokens == NonEmpty(SplitOn(Strip(text), p))
         IN IF lemma # <<>>
            THEN LET pieces == SplitWs(lemma)
                 IN Join([k \in 1..Len(pieces) |-> stem(pieces[k])], <<" ">>)
            ELSE Join([k \in 1..Len(tokens) |->
                          stem(spacy_lemmatizer(tokens[k]))], <<" ">>)
    ELSE text

\* spacy_normalizer(text, lemma); the empty lemma stands for lemma=None as
\* well, "if lemma" takes both the same way
spacy_normalizer(text, lemma) ==
    IF NormalizerRewrites(text)
    THEN LET tokens == NonEmpty(SplitOn(Strip(text), p))
         IN IF lemma # <<>>
            THEN LET pieces == SplitOn(lemma, {" "})
                 IN Join([k \in 1..Len(pieces) |-> stem(pieces[k])], <<" ">>)
            ELSE Join([k \in 1..Len(tokens) |->
                          stem(spacy_lemmatizer(tokens[k]))], <<" ">>)
    ELSE text

----------------------------------------------------------------------------
(* The parser's output: docs, tokens and noun chunks *)

\* a word followed by one space / by nothing (Token.text, Token.whitespace_)
w(t) == [text |-> t, ws |-> <<" ">>]

g(t) == [text |-> t, ws |-> <<>>]

RECURSIVE Offset(_, _)
\* Token.idx of word k: the length of the text before it
Offset(words, k) ==
    IF k = 1 THEN 0
    ELSE Offset(words, k - 1) + Len(words[k - 1].text) + Len(words[k - 1].ws)

\* the tokens of a doc
Tokens(words) ==
    [k \in 1..Len(words) |-> [text |-> words[k].text, idx |-> Offset(words, k)]]

RECURSIVE SpanText(_, _, _)
\* Span.text of the words a..b: the text between the first character of
\* word a and the last character of word b
SpanText(words, a, b) ==
    IF a = b THEN words[a].text
    ELSE words[a].text \o words[a].ws \o SpanText(words, a + 1, b)

\* the noun chunk over the words a..b, with the lemma the tagger gave it
Chunk(words, a, b, lemma) ==
    [start_char |-> Offset(words, a),
     end_char   |-> Offset(words, b) + Len(words[b].text),
     text       |-> SpanText(words, a, b),
     lemma      |-> lemma]

\* a stretch of a line: words that form one noun chunk, or words outside
\* every chunk
NP(words, lemma) == [words |-> words, chunk |-> TRUE, lemma |-> lemma]

Plain(words) == [words |-> words, chunk |-> FALSE, lemma |-> <<>>]

RECURSIVE WordsOf(_)
WordsOf(segs) ==
    IF Len(segs) = 0 THEN <<>> ELSE Head(segs).words \o WordsOf(Tail(segs))

RECURSIVE ChunksOf(_, _, _)
\* the noun chunks of the stretches segs, which start at word first of words
ChunksOf(words, segs, first) ==
    IF Len(segs) = 0 THEN <<>>
    ELSE LET last == first + Len(Head(segs).words) - 1
             rest == ChunksOf(words, Tail(segs), last + 1)
         IN IF Head(segs).chunk
            THEN <<Chunk(words, first, last, Head(segs).lemma)>> \o rest
            ELSE rest

RECURSIVE DocText(_)
\* Doc.text: the words with their whitespace
DocText(words) ==
    IF Len(words) = 0 THEN <<>>
    ELSE Head(words).text \o Head(words).ws \o DocText(Tail(words))

\* the doc the parser returns for a line made of the stretches segs
DocOf(segs) ==
    [text   |-> DocText(WordsOf(segs)),
     tokens |-> Tokens(WordsOf(segs)),
     spans  |-> ChunksOf(WordsOf(segs), segs, 1)]

PRON == <<"-", "P", "R", "O", "N", "-">>

\* the phrases and lemmas of the corpus
Phrases ==
    { <<w(<<"a">>), w(<<"b">>)>>,                  \* "a b"
      <<w(<<"b">>), g(<<" ">>), w(<<"a">>)>>,      \* "b  a"
      <<w(<<"a">>)>> }                             \* "a"

Lemmas == { <<"a", " ", "b">>, <<"b">>, PRON }

Segments ==
    { NP(ph, l) : ph \in Phrases, l \in Lemmas }
        \cup { Plain(<<w(<<"b">>)>>), Plain(<<g(<<"\n">>)>>) }

\* the lines of the corpus: one or two stretches
Docs ==
    { DocOf(<<s>>) : s \in Segments }
        \cup { DocOf(<<s1, s2>>) : s1 \in Segments, s2 \in Segments }

\* the non-empty sequences of at most n elements of S
SeqsUpTo(S, n) == UNION { [1..m -> S] : m \in 1..n }

\* the words of generated phrases: a letter, an upper-case letter, the
\* default marker, and the whitespace tokens the tokenizer makes of a
\* second space and of a tab
TextWords ==
    { w(<<c>>) : c \in {"a", "S", "_"} }
        \cup { g(<<c>>) : c \in {"a", "S", "_", " ", "\t"} }

\* noun chunks do not start or end with a whitespace token
TextPhrases ==
    { ph \in SeqsUpTo(TextWords, MaxWords) :
        /\ Head(ph).text[1] \notin Whitespace
        /\ ph[Len(ph)].text[1] \notin Whitespace }

\* Span.lemma_ is stripped and not empty
TextLemmas ==
    { l \in SeqsUpTo({"a", "_", " "}, MaxLemma) : l[1] # " " /\ l[Len(l)] # " " }

\* the phrases of the lines that try the keys: two words, an upper-case
\* word that the normalizer returns as it is, and one character
KeyPhrases ==
    { <<w(<<"a">>), w(<<"b">>)>>, <<g(<<"S">>), w(<<"S">>)>>, <<w(<<"a">>)>> }

\* lines with one noun chunk with a generated lemma between two words
KeyDocs ==
    { DocOf(<<Plain(<<w(<<"b">>)>>), NP(ph, l), Plain(<<g(<<"b">>)>>)>>) :
        ph \in KeyPhrases, l \in TextLemmas }

\* lines with one generated noun chunk between two words
TextDocs ==
    { DocOf(<<Plain(<<w(<<"b">>)>>), NP(ph, l), Plain(<<g(<<"b">>)>>)>>) :
        ph \in TextPhrases, l \in TextLemmas }

\* text[s:e]
Slice(text, s, e) ==
    SubSeq(text, s + 1, IF e < Len(text) THEN e ELSE Len(text))

\* the words of the lines whose spans are given by offsets: "a b b a"
RawWords == <<w(<<"a">>), w(<<"b">>), w(<<"b">>), g(<<"a">>)>>

\* spans of "a b b a" given by their offsets alone
RawSpans ==
    { [start_char |-> s, end_char |-> e,
       text |-> Slice(DocText(RawWords), s, e), lemma |-> <<"a", " ", "b">>] :
        s \in 0..MaxOffset, e \in 0..MaxOffset }

\* "a b b a" with one or two spans in any order, overlapping or not, inside
\* the line or not
RawDocs ==
    { [text |-> DocText(RawWords), tokens |-> Tokens(RawWords), spans |-> sps] :
        sps \in SeqsUpTo({ sp \in RawSpans : sp.start_char <= sp.end_char }, 2) }

\* the words of the lines with a token of two characters: "ab b a"
CutWords == <<w(<<"a", "b">>), w(<<"b">>), g(<<"a">>)>>

\* spans of "ab b a" given by their offsets alone
CutSpans ==
    { [start_char |-> s, end_char |-> e,
       text |-> Slice(DocText(CutWords), s, e), lemma |-> <<"a", " ", "b">>] :
        s \in 0..MaxOffset, e \in 0..MaxOffset }

\* "ab b a" with one or two spans, which may start or end inside a token
CutDocs ==
    { [text |-> DocText(CutWords), tokens |-> Tokens(CutWords), spans |-> sps] :
        sps \in SeqsUpTo({ sp \in CutSpans : sp.start_char <= sp.end_char }, 2) }

----------------------------------------------------------------------------
(* solutions/set_expansion/prepare_data.py *)

\* d[k] = v on a dict
Put(d, k, v) == [x \in (DOMAIN d) \cup {k} |-> IF x = k THEN v ELSE d[x]]

\* np in list
InList(x, list) == \E k \in 1..Len(list) : list[k] = x

\* Printable without the strip
Printable_unstripped(token) == Len(token.text) > 0

\* len(token.text.strip()) > 0
Printable(token) == Len(Strip(token.text)) > 0

\* token.idx < span.start_char or token.idx >= span.end_char
Outside(token, sp) == token.idx < sp.start_char \/ token.idx >= sp.end_char

\* IsNP with the length test off by two
IsNP_long(sp) == Len(sp.text) > 3 /\ sp.lemma # PRON

\* IsNP without the pronoun test
IsNP_pron(sp) == Len(sp.text) > 1

\* len(span.text) > 1 and span.lemma_ != '-PRON-'
IsNP(sp) == Len(sp.text) > 1 /\ sp.lemma # PRON

\* np2count[np] = 1 if np is new, np2count[np] += 1 otherwise
np2countUpdate(count, np) ==
    IF np \notin DOMAIN count THEN Put(count, np, 1)
    ELSE Put(count, np, count[np] + 1)

\* Sanitize that leaves the marker in the key
Sanitize_none(norm, mark) == norm

\* if args.mark_char in norm: norm = norm.replace(args.mark_char, ' ')
Sanitize(norm, mark) ==
    IF Contains(mark, norm) THEN Replace(norm, mark, <<" ">>) ELSE norm

\* id2groupUpdate without the test that the variant is new to the key
id2groupUpdate_dup(group, norm, np) ==
    IF norm \in DOMAIN group
    THEN Put(group, norm, Append(group[norm], np))
    ELSE Put(group, norm, <<np>>)

\* id2groupUpdate without the append of a new variant to a known key
id2groupUpdate_noappend(group, norm, np) ==
    IF norm \in DOMAIN group THEN group ELSE Put(group, norm, <<np>>)

\* the effect of the grouping branch on id2group
id2groupUpdate(group, norm, np) ==
    IF norm \in DOMAIN group
    THEN IF ~InList(np, group[norm])
         THEN Put(group, norm, Append(group[norm], np))
         ELSE group
    ELSE Put(group, norm, <<np>>)

\* id2repUpdate that makes a variant new to a known key its representative
id2repUpdate_newvariant(rep, group, count, norm, np) ==
    LET rep1 == IF norm \notin DOMAIN rep THEN Put(rep, norm, np) ELSE rep
    IN IF norm \in DOMAIN group
       THEN IF ~InList(np, group[norm]) THEN Put(rep1, norm, np)
            ELSE IF count[np] > count[rep1[norm]] THEN Put(rep1, norm, np)
            ELSE rep1
       ELSE Put(rep1, norm, np)

\* id2repUpdate with >= in place of > in the comparison of the counts
id2repUpdate_ge(rep, group, count, norm, np) ==
    LET rep1 == IF norm \notin DOMAIN rep THEN Put(rep, norm, np) ELSE rep
    IN IF norm \in DOMAIN group
       THEN IF ~InList(np, group[norm]) THEN rep1
            ELSE IF count[np] >= count[rep1[norm]] THEN Put(rep1, norm, np)
            ELSE rep1
       ELSE Put(rep1, norm, np)

\* the effect of the grouping branch on id2rep; count is np2count after
\* the increment
id2repUpdate(rep, group, count, norm, np) ==
    LET rep1 == IF norm \notin DOMAIN rep THEN Put(rep, norm, np) ELSE rep
    IN IF norm \in DOMAIN group
       THEN IF ~InList(np, group[norm]) THEN rep1
            ELSE IF count[np] > count[rep1[norm]] THEN Put(rep1, norm, np)
            ELSE rep1
       ELSE Put(rep1, norm, np)

\* MarkGrouped that marks the representative of a key known before
MarkGrouped_rep(norm, mark) ==
    IF norm \in DOMAIN id2rep
    THEN Replace(id2rep[norm], <<" ">>, mark) \o mark
    ELSE Replace(norm, <<" ">>, mark) \o mark

\* text = norm.replace(' ', args.mark_char) + args.mark_char
MarkGrouped(norm, mark) == Replace(norm, <<" ">>, mark) \o mark

\* text = span.text.replace(' ', args.mark_char) + args.mark_char
MarkPlain(text, mark) == Replace(text, <<" ">>, mark) \o mark

\* marked_corpus_file.write(text): the text, the statement that wrote it
\* and the position of the token loop
Write(text, site) ==
    marked_corpus_file' =
        Append(marked_corpus_file, [text |-> text, site |-> site, tk |-> tk])

\* span = spans.pop(0) if len(spans) > 0 else None; spanWritten = False
PopSpan(list) ==
    /\ span' = IF Len(list) > 0 THEN Head(list) ELSE None
    /\ spans' = IF Len(list) > 0 THEN Tail(list) ELSE list
    /\ spanWritten' = FALSE

\* if token.idx + len(token.text) == span.end_char: advance to the next span
Advance(token, written) ==
    IF token.idx + Len(token.text) = span.end_char
    THEN PopSpan(spans)
    ELSE /\ spanWritten' = written
         /\ UNCHANGED <<span, spans>>

InTokenLoop == pc = "tokens" /\ tk <= Len(doc.tokens)

\* for doc in nlp.pipe(corpus_file): the parsed line d is taken and the
\* span cursor is set on its first span
Take(d) ==
    /\ pc = "pipe"
    /\ doc' = d
    /\ i' = i + 1
    /\ PopSpan(d.spans)
    /\ tk' = 1
    /\ marked_corpus_file' = <<>>
    /\ pc' = "tokens"
    /\ UNCHANGED <<grouping, mark_char, np2count, np2id, id2group, id2rep,
                   dumped>>
    /\ UNCHANGED lib

\* the next line, one of lines, of a corpus of at most MaxDocs lines
NextDoc(lines) == i < MaxDocs /\ \E d \in lines : Take(d)

\* the line, one of lines, of a corpus of one line
OnlyDoc(lines) == i = 0 /\ \E d \in lines : Take(d)

\* a token while no span is active
TokenNoSpan ==
    /\ InTokenLoop
    /\ span = None
    /\ IF Printable(doc.tokens[tk])
       THEN Write(doc.tokens[tk].text \o <<" ">>, "token")
       ELSE UNCHANGED marked_corpus_file
    /\ tk' = tk + 1
    /\ UNCHANGED <<grouping, mark_char, np2count, np2id, id2group, id2rep,
                   i, doc, spans, span, spanWritten, dumped, pc>>
    /\ UNCHANGED lib

\* a token outside the active span
TokenOutside ==
    /\ InTokenLoop
    /\ span # None
    /\ Outside(doc.tokens[tk], span)
    /\ IF Printable(doc.tokens[tk])
       THEN Write(doc.tokens[tk].text \o <<" ">>, "token")
       ELSE UNCHANGED marked_corpus_file
    /\ tk' = tk + 1
    /\ UNCHANGED <<grouping, mark_char, np2count, np2id, id2group, id2rep,
                   i, doc, spans, span, spanWritten, dumped, pc>>
    /\ UNCHANGED lib

\* a token inside the active span, which has been written already
TokenInWrittenSpan ==
    /\ InTokenLoop
    /\ span # None
    /\ ~Outside(doc.tokens[tk], span)
    /\ spanWritten
    /\ Advance(doc.tokens[tk], TRUE)
    /\ tk' = tk + 1
    /\ UNCHANGED <<grouping, mark_char, np2count, np2id, id2group, id2rep,
                   i, doc, marked_corpus_file, dumped, pc>>
    /\ UNCHANGED lib

\* the first token inside a span that is not marked: the span's text
WriteLiteral ==
    /\ InTokenLoop
    /\ span # None
    /\ ~Outside(doc.tokens[tk], span)
    /\ ~spanWritten
    /\ ~IsNP(span)
    /\ Write(span.text \o <<" ">>, "literal")
    /\ Advance(doc.tokens[tk], TRUE)
    /\ tk' = tk + 1
    /\ UNCHANGED <<grouping, mark_char, np2count, np2id, id2group, id2rep,
                   i, doc, dumped, pc>>
    /\ UNCHANGED lib

\* the first token inside a span that is marked, without grouping
WritePlain ==
    /\ InTokenLoop
    /\ span # None
    /\ ~Outside(doc.tokens[tk], span)
    /\ ~spanWritten
    /\ IsNP(span)
    /\ ~grouping
    /\ Write(MarkPlain(span.text, mark_char) \o <<" ">>, "np")
    /\ Advance(doc.tokens[tk], TRUE)
    /\ tk' = tk + 1
    /\ UNCHANGED <<grouping, mark_char, np2count, np2id, id2group, id2rep,
                   i, doc, dumped, pc>>
    /\ UNCHANGED lib

\* the first token inside a span that is marked, with grouping
WriteGrouped ==
    /\ InTokenLoop
    /\ span # None
    /\ ~Outside(doc.tokens[tk], span)
    /\ ~spanWritten
    /\ IsNP(span)
    /\ grouping
    /\ LET np == span.text
           count == np2countUpdate(np2count, np)
           norm == Sanitize(spacy_normalizer(np, span.lemma), mark_char)
       IN /\ np2count' = count
          /\ np2id' = Put(np2id, np, norm)
          /\ id2rep' = id2repUpdate(id2rep, id2group, count, norm, np)
          /\ id2group' = id2groupUpdate(id2group, norm, np)
          /\ Write(MarkGrouped(norm, mark_char) \o <<" ">>, "np")
    /\ Advance(doc.tokens[tk], TRUE)
    /\ tk' = tk + 1
    /\ UNCHANGED <<grouping, mark_char, i, doc, dumped, pc>>
    /\ UNCHANGED lib

\* spacy_normalizer raises: np2count has been updated, the exception leaves
\* the loops
NormalizerRaises ==
    /\ InTokenLoop
    /\ span # None
    /\ ~Outside(doc.tokens[tk], span)
    /\ ~spanWritten
    /\ IsNP(span)
    /\ grouping
    /\ np2count' = np2countUpdate(np2count, span.text)
    /\ pc' = "raised"
    /\ UNCHANGED <<grouping, mark_char, np2id, id2group, id2rep, i, doc,
                   spans, span, spanWritten, tk, marked_corpus_file, dumped>>
    /\ UNCHANGED lib

\* the token loop is over: marked_corpus_file.write('\n')
EndLine ==
    /\ pc = "tokens"
    /\ tk > Len(doc.tokens)
    /\ Write(<<"\n">>, "newline")
    /\ pc' = "pipe"
    /\ UNCHANGED <<grouping, mark_char, np2count, np2id, id2group, id2rep,
                   i, doc, spans, span, spanWritten, tk, dumped>>
    /\ UNCHANGED lib

\* the corpus is exhausted: with grouping the tables are dumped; the pass
\* ends
Finish ==
    /\ pc = "pipe"
    /\ dumped' = IF grouping
                 THEN [id2group |-> id2group, id2rep |-> id2rep, np2id |-> np2id]
                 ELSE dumped
    /\ pc' = "done"
    /\ UNCHANGED <<grouping, mark_char, np2count, np2id, id2group, id2rep,
                   i, doc, spans, span, spanWritten, tk, marked_corpus_file>>
    /\ UNCHANGED lib

Markers == { <<"_">>, <<"_", "_">> }

\* every --mark_char that check_size(1, 2) lets through, over three
\* characters
AnyMarkers == SeqsUpTo({"_", " ", "S"}, 2)

\* the state before the first line, with mark_char one of markers
Start(markers) ==
    /\ grouping \in BOOLEAN
    /\ mark_char \in markers
    /\ np2count = <<>>
    /\ np2id = <<>>
    /\ id2group = <<>>
    /\ id2rep = <<>>
    /\ i = 0
    /\ doc = None
    /\ spans = <<>>
    /\ span = None
    /\ spanWritten = FALSE
    /\ tk = 1
    /\ marked_corpus_file = <<>>
    /\ dumped = None
    /\ pc = "pipe"
    /\ norm_call = None
    /\ vocab = <<>>
    /\ rev_vocab = <<>>
    /\ next = 0
    /\ vocab_call = None

Init == Start(Markers)

Step ==
    \/ TokenNoSpan
    \/ TokenOutside
    \/ TokenInWrittenSpan
    \/ WriteLiteral
    \/ WritePlain
    \/ WriteGrouped
    \/ EndLine
    \/ Finish

Next ==
    \/ NextDoc(Docs)
    \/ Step

Spec == Init /\ [][Next]_vars

\* a corpus of one line with a generated noun chunk
NextText ==
    \/ OnlyDoc(TextDocs)
    \/ Step

SpecText == Init /\ [][NextText]_vars

\* a corpus of one line with a generated lemma, under any marker
NextKey ==
    \/ OnlyDoc(KeyDocs)
    \/ Step

SpecKey == Start(AnyMarkers) /\ [][NextKey]_vars

\* the texts and lemmas of the calls of spacy_normalizer made on its own;
\* the empty lemma is the call without a lemma
NormTexts == SeqsUpTo({"a", "S", "-", " ", "\t"}, MaxText)

NormLemmas == {<<>>} \cup SeqsUpTo({"a", "S", " ", "\t"}, MaxLemma)

\* a call of spacy_normalizer(text, lemma)
Normalize(text, lemma) ==
    /\ norm_call = None
    /\ norm_call' = [text |-> text, lemma |-> lemma,
                     result |-> spacy_normalizer(text, lemma)]
    /\ UNCHANGED <<grouping, mark_char, np2count, np2id, id2group, id2rep,
                   i, doc, spans, span, spanWritten, tk, marked_corpus_file,
                   dumped, pc, vocab, rev_vocab, next, vocab_call>>

\* calls of spacy_normalizer
NextNorm ==
    /\ norm_call = None
    /\ \E text \in NormTexts : \E lemma \in NormLemmas : Normalize(text, lemma)

SpecNorm == Init /\ [][NextNorm]_vars

\* the variables of prepare_data.py and the call of the normalizer, which
\* the Vocabulary leaves alone
nonVocabulary ==
    <<grouping, mark_char, np2count, np2id, id2group, id2rep, i, doc, spans,
      span, spanWritten, tk, marked_corpus_file, dumped, pc, norm_call>>

\* the words given to Vocabulary.add
VocabWords == {"a", "b", "c"}

\* Vocabulary.__init__(start)
Vocabulary(start) ==
    /\ vocab' = <<>>
    /\ rev_vocab' = <<>>
    /\ next' = start
    /\ vocab_call' = [op |-> "init", arg |-> start, result |-> None]
    /\ UNCHANGED nonVocabulary

\* Vocabulary.add(word); the result is self._vocab.get(word)
add(word) ==
    /\ IF word \notin DOMAIN vocab
       THEN /\ vocab' = Put(vocab, word, next)
            /\ rev_vocab' = Put(rev_vocab, next, word)
            /\ next' = next + 1
       ELSE UNCHANGED <<vocab, rev_vocab, next>>
    /\ vocab_call' = [op |-> "add", arg |-> word, result |-> vocab'[word]]
    /\ UNCHANGED nonVocabulary

\* add_vocab_offset that leaves next as it is
add_vocab_offset_keepnext(offset) ==
    /\ next + offset \in -MaxId..MaxId
    /\ vocab' = [k \in DOMAIN vocab |-> vocab[k] + offset]
    /\ rev_vocab' = [v \in { vocab[k] + offset : k \in DOMAIN vocab } |->
                        CHOOSE k \in DOMAIN vocab : vocab[k] + offset = v]
    /\ vocab_call' = [op |-> "add_vocab_offset", arg |-> offset, result |-> None]
    /\ UNCHANGED next
    /\ UNCHANGED nonVocabulary

\* Vocabulary.add_vocab_offset(offset); the ids of the words are distinct,
\* so that no item of the reversed dict overwrites another
add_vocab_offset(offset) ==
    /\ next + offset \in -MaxId..MaxId
    /\ vocab' = [k \in DOMAIN vocab |-> vocab[k] + offset]
    /\ next' = next + offset
    /\ rev_vocab' = [v \in { vocab[k] + offset : k \in DOMAIN vocab } |->
                        CHOOSE k \in DOMAIN vocab : vocab[k] + offset = v]
    /\ vocab_call' = [op |-> "add_vocab_offset", arg |-> offset, result |-> None]
    /\ UNCHANGED nonVocabulary

\* calls made on a Vocabulary
NextVocab ==
    \/ \E start \in 0..MaxShift : Vocabulary(start)
    \/ \E word \in VocabWords : add(word)
    \/ \E offset \in -MaxShift..MaxShift : add_vocab_offset(offset)

SpecVocab == Init /\ [][NextVocab]_vars

\* a corpus of one line whose spans are given by offsets alone
NextRaw ==
    \/ OnlyDoc(RawDocs)
    \/ Step

SpecRaw == Init /\ [][NextRaw]_vars

\* a corpus of one line whose spans may cut a token
NextCut ==
    \/ OnlyDoc(CutDocs)
    \/ Step

SpecCut == Init /\ [][NextCut]_vars

\* the pass with a normalizer that may raise
NextRaise ==
    \/ Next
    \/ NormalizerRaises

SpecRaise == Init /\ [][NextRaise]_vars

----------------------------------------------------------------------------
(* Properties of the grouping tables *)

\* the position in list of its element x
IndexOf(x, list) == CHOOSE k \in 1..Len(list) : list[k] = x

\* the positions of the variants of key k with the greatest count
Tied(k) ==
    { a \in 1..Len(id2group[k]) :
        \A b \in 1..Len(id2group[k]) :
            np2count[id2group[k][b]] <= np2count[id2group[k][a]] }

\* C1: for every key, no variant of the key has a count greater than the
\* count of the key's representative.
RepHasMaxCount ==
    \A k \in DOMAIN id2rep :
        \A a \in 1..Len(id2group[k]) :
            np2count[id2group[k][a]] <= np2count[id2rep[k]]

\* C2 as stated: when two or more variants of a key share the greatest
\* count, the representative is the tied variant that comes first in the
\* key's list of variants.
TieGoesToFirstSeen ==
    \A k \in DOMAIN id2rep :
        Cardinality(Tied(k)) >= 2 =>
            /\ InList(id2rep[k], id2group[k])
            /\ \A a \in Tied(k) : IndexOf(id2rep[k], id2group[k]) <= a

\* the step observes the span text np: its count is new or has changed
Observed(np) ==
    /\ np \in DOMAIN np2count'
    /\ np \notin DOMAIN np2count \/ np2count'[np] # np2count[np]

\* C2 as amended: a step that observes a variant of a key known before the
\* step and leaves the variant's count equal to the count of the key's
\* representative does not change the representative of the key.
TieKeepsRep ==
    [][\A np \in DOMAIN np2id' : \A k \in DOMAIN id2rep :
          ( /\ Observed(np)
            /\ np2id'[np] = k
            /\ np2count'[np] = np2count'[id2rep[k]] )
          => id2rep'[k] = id2rep[k]]_vars

\* a key whose representative shares the greatest count with a variant that
\* comes before it in the key's list
TieKeptLaterVariant ==
    \E k \in DOMAIN id2rep :
        /\ InList(id2rep[k], id2group[k])
        /\ IndexOf(id2rep[k], id2group[k]) \in Tied(k)
        /\ \E a \in Tied(k) : a < IndexOf(id2rep[k], id2group[k])

\* C3: every span text with a recorded key is in the list of that key, the
\* representative of every key is in the list of the key, and id2group and
\* id2rep have the same keys.
TablesConsistent ==
    /\ \A np \in DOMAIN np2id :
          /\ np2id[np] \in DOMAIN id2group
          /\ InList(np, id2group[np2id[np]])
    /\ DOMAIN id2group = DOMAIN id2rep
    /\ \A k \in DOMAIN id2rep : InList(id2rep[k], id2group[k])

\* a key with two variants whose representative is the second one
TwoVariantsRepReplaced ==
    \E k \in DOMAIN id2rep :
        /\ Len(id2group[k]) >= 2
        /\ id2rep[k] = id2group[k][2]
        /\ np2id[id2group[k][1]] = k

\* C10: a span text is in the list of at most one key, the key recorded
\* for it in np2id.
OneKeyPerPhrase ==
    \A np \in DOMAIN np2id : \A k \in DOMAIN id2group :
        InList(np, id2group[k]) => k = np2id[np]

----------------------------------------------------------------------------
(* Properties of the output line *)

\* the line of doc has been processed to its end
LineDone == pc \in {"pipe", "done"} /\ doc # None

\* the writes made at position t of the token loop
WritesAt(t) == SelectSeq(marked_corpus_file, LAMBDA wr : wr.tk = t)

\* the positions of the tokens that start inside the span sp
TokensIn(sp) ==
    { t \in 1..Len(doc.tokens) :
        doc.tokens[t].idx >= sp.start_char /\ doc.tokens[t].idx < sp.end_char }

\* the span is not one the spec lets through unmarked
MustBeMarked(sp) == ~(Len(sp.text) <= 1 \/ sp.lemma = PRON)

\* the written text is a marked token: it ends in the marker and a space
IsMarked(text) == EndsWith(text, mark_char \o <<" ">>)

WritesMarkableSpan ==
    /\ pc = "tokens"
    /\ tk <= Len(doc.tokens)
    /\ span # None
    /\ doc.tokens[tk].idx >= span.start_char
    /\ doc.tokens[tk].idx < span.end_char
    /\ ~spanWritten
    /\ MustBeMarked(span)

\* C9: without grouping the four tables are empty throughout, and a step
\* changes one of the tables only if grouping is on and the step writes a
\* span longer than one character with a lemma other than the pronoun
\* placeholder.
TablesFrame ==
    /\ [](~grouping => /\ DOMAIN np2count = {}
                       /\ DOMAIN np2id = {}
                       /\ DOMAIN id2group = {}
                       /\ DOMAIN id2rep = {})
    /\ [][tables' # tables => grouping /\ WritesMarkableSpan]_vars

\* with grouping on and the tables filled, the current line has written a
\* token on its own and a span as its own text
FilledTablesAndLiteral ==
    /\ grouping
    /\ DOMAIN np2count # {}
    /\ \E a \in 1..Len(marked_corpus_file) :
          marked_corpus_file[a].site = "literal"
    /\ \E a \in 1..Len(marked_corpus_file) :
          marked_corpus_file[a].site = "token"

\* the span of doc that starts at token t
SpanAt(t) ==
    CHOOSE sp \in { doc.spans[s] : s \in 1..Len(doc.spans) } :
        sp.start_char = doc.tokens[t].idx

\* some span of doc has an offset outside the line, or two spans of doc
\* overlap or are not in left-to-right order
Malformed(d) ==
    \/ \E s \in 1..Len(d.spans) : d.spans[s].end_char > Len(d.text)
    \/ \E a \in 1..Len(d.spans) : \E b \in 1..Len(d.spans) :
          a < b /\ d.spans[b].start_char < d.spans[a].end_char

\* C5: a line whose spans overlap, are out of order or lie outside the line
\* is never processed to its end as a normal line.
MalformedLineFails == ~(LineDone /\ Malformed(doc))

\* C6: when the normalizer raises, nothing of the line has been written,
\* and the step in which it raises leaves the four tables as they were.
NoPartialEffect ==
    /\ [](pc = "raised" => marked_corpus_file = <<>>)
    /\ [][pc' = "raised" => tables' = tables]_vars

\* the text with every run of whitespace replaced by one sep
Collapse(text, sep) == Join(SplitWs(text), sep)

\* C7: without grouping, the token written for a marked span is the span
\* text with every run of whitespace replaced by one marker, followed by
\* one marker; it holds no whitespace.
PlainMarkCollapsesRuns ==
    \A a \in 1..Len(marked_corpus_file) :
        (~grouping /\ marked_corpus_file[a].site = "np") =>
            LET sp == SpanAt(marked_corpus_file[a].tk)
                token == SubSeq(marked_corpus_file[a].text, 1,
                                Len(marked_corpus_file[a].text) - 1)
            IN /\ token = Collapse(sp.text, mark_char) \o mark_char
               /\ \A k \in 1..Len(token) : token[k] \notin Whitespace

\* the marked token without its trailing marker and with its other markers
\* turned into spaces
Decode(token) ==
    Replace(SubSeq(token, 1, Len(token) - Len(mark_char)), mark_char, <<" ">>)

\* C8: the token written for a marked span decodes, without grouping, to
\* the span text with its whitespace runs turned into single spaces and,
\* with grouping, to the key recorded for the span text.
RoundTrip ==
    \A a \in 1..Len(marked_corpus_file) :
        marked_corpus_file[a].site = "np" =>
            LET sp == SpanAt(marked_corpus_file[a].tk)
                token == SubSeq(marked_corpus_file[a].text, 1,
                                Len(marked_corpus_file[a].text) - 1)
            IN /\ EndsWith(token, mark_char)
               /\ Decode(token) = IF grouping THEN np2id[sp.text]
                                  ELSE Collapse(sp.text, <<" ">>)

----------------------------------------------------------------------------
(* Properties of the keys *)

\* the keys held by the tables
StoredKeys ==
    (DOMAIN id2group) \cup (DOMAIN id2rep)
        \cup { np2id[np] : np \in DOMAIN np2id }

\* C11 as stated: no key held by the tables contains the marker, whatever
\* the marker of one or two characters.
KeysHoldNoMarker == \A k \in StoredKeys : ~Contains(mark_char, k)

\* C11 as amended: when the marker holds no space, no key held by the
\* tables contains the marker.
KeysHoldNoSpacelessMarker ==
    (\A c \in 1..Len(mark_char) : mark_char[c] # " ") => KeysHoldNoMarker

\* a key has been recorded for a span whose normalized form contains the
\* marker, and the marker holds no space
MarkerReplacedInKey ==
    /\ \A c \in 1..Len(mark_char) : mark_char[c] # " "
    /\ doc # None
    /\ \E s \in 1..Len(doc.spans) :
          /\ doc.spans[s].text \in DOMAIN np2id
          /\ Contains(mark_char,
                      spacy_normalizer(doc.spans[s].text, doc.spans[s].lemma))

----------------------------------------------------------------------------
(* Growth of the tables *)

\* list is a prefix of longer
IsPrefix(list, longer) ==
    /\ Len(list) <= Len(longer)
    /\ SubSeq(longer, 1, Len(list)) = list

\* no element of list occurs twice
NoDuplicates(list) ==
    \A a \in 1..Len(list) : \A b \in 1..Len(list) :
        list[a] = list[b] => a = b

\* C12: the four tables start empty; no step removes a key from any of
\* them, lowers a count, or changes the list of a key otherwise than by
\* appending at its end; no list holds a variant twice.
TablesOnlyGrow ==
    /\ (DOMAIN np2count) \cup (DOMAIN np2id) \cup (DOMAIN id2group)
          \cup (DOMAIN id2rep) = {}
    /\ [][ /\ DOMAIN np2count \subseteq DOMAIN np2count'
           /\ DOMAIN np2id \subseteq DOMAIN np2id'
           /\ DOMAIN id2group \subseteq DOMAIN id2group'
           /\ DOMAIN id2rep \subseteq DOMAIN id2rep'
           /\ \A np \in DOMAIN np2count : np2count[np] <= np2count'[np]
           /\ \A k \in DOMAIN id2group : IsPrefix(id2group[k], id2group'[k])
         ]_vars
    /\ [](\A k \in DOMAIN id2group : NoDuplicates(id2group[k]))

\* a key with two variants, the first of them observed twice
GroupGrownAndCounted ==
    \E k \in DOMAIN id2group :
        /\ Len(id2group[k]) >= 2
        /\ np2count[id2group[k][1]] >= 2

----------------------------------------------------------------------------
(* Properties of spacy_normalizer *)

\* the text is one word that has no lower-case letter, has an upper-case
\* letter and ends in "S"
AcronymPlural(t) ==
    LET inner == { k \in 1..Len(t) : t[k] \notin Whitespace }
    IN /\ inner # {}
       /\ \A a \in inner : \A b \in inner : \A c \in a..b : c \in inner
       /\ \A k \in 1..Len(t) : t[k] \notin LowerCase
       /\ \E k \in 1..Len(t) : t[k] \in UpperCase
       /\ t[Len(t)] = "S"

\* the pieces the key is made of: those of the lemma when there is one,
\* the lemmatized fragments of the stripped text otherwise
KeyPieces(t, l) ==
    IF l # <<>> THEN SplitOn(l, {" "})
    ELSE LET fragments == NonEmpty(SplitOn(Strip(t), p))
         IN [k \in 1..Len(fragments) |-> spacy_lemmatizer(fragments[k])]

\* the stemmed pieces joined by single spaces
StemmedJoin(t, l) ==
    Join([k \in 1..Len(KeyPieces(t, l)) |-> stem(KeyPieces(t, l)[k])], <<" ">>)

\* C13 as stated: the result is the text exactly when the text is one
\* upper-case word ending in "S", and the join of the stemmed pieces in
\* every other case.
UnchangedExactlyForAcronymPlural ==
    norm_call # None =>
        /\ (norm_call.result = norm_call.text) <=> AcronymPlural(norm_call.text)
        /\ ~AcronymPlural(norm_call.text) =>
              norm_call.result = StemmedJoin(norm_call.text, norm_call.lemma)

\* C13 as amended: the result is the text whenever the text is one
\* upper-case word ending in "S", and the join of the stemmed pieces in
\* every other case.
UnchangedForAcronymPlural ==
    norm_call # None =>
        IF AcronymPlural(norm_call.text)
        THEN norm_call.result = norm_call.text
        ELSE norm_call.result = StemmedJoin(norm_call.text, norm_call.lemma)

\* a call with an upper-case word ending in "S" and a lemma that would
\* have given another key
AcronymPluralKept ==
    /\ norm_call # None
    /\ AcronymPlural(norm_call.text)
    /\ norm_call.lemma # <<>>
    /\ norm_call.result = norm_call.text
    /\ norm_call.result # StemmedJoin(norm_call.text, norm_call.lemma)

\* the number of spaces of s
RECURSIVE Spaces(_)
Spaces(s) ==
    IF Len(s) = 0 THEN 0
    ELSE (IF Head(s) = " " THEN 1 ELSE 0) + Spaces(Tail(s))

\* the call rewrites the text and has a lemma
RewritesWithLemma ==
    /\ norm_call # None
    /\ ~AcronymPlural(norm_call.text)
    /\ norm_call.lemma # <<>>

----------------------------------------------------------------------------
(* Properties of the walk over tokens and spans *)

\* the spans of d are in left-to-right order, do not overlap, and each
\* starts at the start of a token and ends at the end of a later or the
\* same token
AlignedLine(d) ==
    /\ \A s \in 1..Len(d.spans) :
          /\ d.spans[s].start_char < d.spans[s].end_char
          /\ \E t \in 1..Len(d.tokens) :
                d.tokens[t].idx = d.spans[s].start_char
          /\ \E t \in 1..Len(d.tokens) :
                d.tokens[t].idx + Len(d.tokens[t].text) = d.spans[s].end_char
    /\ \A a \in 1..Len(d.spans) : \A b \in 1..Len(d.spans) :
          a < b => d.spans[a].end_char <= d.spans[b].start_char

\* token t of doc lies in the range of some span of doc
InSomeSpan(t) ==
    \E s \in 1..Len(doc.spans) :
        /\ doc.tokens[t].idx >= doc.spans[s].start_char
        /\ doc.tokens[t].idx + Len(doc.tokens[t].text) <= doc.spans[s].end_char

\* token t of doc is the first token of some span of doc
StartsSomeSpan(t) ==
    \E s \in 1..Len(doc.spans) : doc.tokens[t].idx = doc.spans[s].start_char

\* C15: when a line with aligned, ordered, non-overlapping spans is done,
\* the writes are in token order; a token outside every span was written as
\* it is with one space, unless it is whitespace only, and then not at all;
\* the first token of a span has one write, of the span; the other tokens
\* of a span have none; and the line ends with its only newline.
AlignedLineOutput ==
    (LineDone /\ AlignedLine(doc)) =>
        LET n == Len(doc.tokens)
        IN /\ \A a \in 1..Len(marked_corpus_file) :
                 /\ marked_corpus_file[a].tk \in 1..(n + 1)
                 /\ \A b \in 1..Len(marked_corpus_file) :
                       a < b => marked_corpus_file[a].tk
                                    <= marked_corpus_file[b].tk
           /\ \A t \in 1..n :
                 IF StartsSomeSpan(t)
                 THEN /\ Len(WritesAt(t)) = 1
                      /\ WritesAt(t)[1].site \in {"literal", "np"}
                 ELSE IF InSomeSpan(t) THEN WritesAt(t) = <<>>
                 ELSE IF \E k \in 1..Len(doc.tokens[t].text) :
                             doc.tokens[t].text[k] \notin Whitespace
                 THEN /\ Len(WritesAt(t)) = 1
                      /\ WritesAt(t)[1].text = doc.tokens[t].text \o <<" ">>
                      /\ WritesAt(t)[1].site = "token"
                 ELSE WritesAt(t) = <<>>
           /\ Len(WritesAt(n + 1)) = 1
           /\ WritesAt(n + 1)[1].text = <<"\n">>
           /\ \A a \in 1..Len(marked_corpus_file) :
                 marked_corpus_file[a].site = "newline"
                     <=> a = Len(marked_corpus_file)

\* a finished line with a whitespace-only token outside every span and a
\* span of three tokens written once
WhitespaceSkippedSpanWrittenOnce ==
    /\ LineDone
    /\ AlignedLine(doc)
    /\ \E t \in 1..Len(doc.tokens) :
          /\ ~InSomeSpan(t)
          /\ doc.tokens[t].text = <<"\n">>
          /\ WritesAt(t) = <<>>
    /\ \E s \in 1..Len(doc.spans) :
          /\ Cardinality(TokensIn(doc.spans[s])) = 3
          /\ Len(SelectSeq(marked_corpus_file,
                           LAMBDA wr : wr.tk \in TokensIn(doc.spans[s]))) = 1

\* the spans of d lie in the line, in left-to-right order, and do not
\* overlap
OrderedSpans(d) ==
    /\ \A s \in 1..Len(d.spans) : d.spans[s].end_char <= Len(d.text)
    /\ \A a \in 1..Len(d.spans) : \A b \in 1..Len(d.spans) :
          a < b => d.spans[a].end_char <= d.spans[b].start_char

\* C16: when the tokens of a line with ordered, non-overlapping spans have
\* all been consumed, no span is active and no span is left in the list.
CursorExhausted ==
    (LineDone /\ OrderedSpans(doc)) => (span = None /\ spans = <<>>)

----------------------------------------------------------------------------
(* Properties of the replacement of a representative *)

\* C17: a step that changes the representative of a key known before the
\* step observes a span text whose key is that key, makes that text the
\* representative, and leaves the text with a count strictly greater than
\* the count of the representative it replaces; so equal counts replace
\* nothing and the representatives of the other keys stay.
RepReplacedOnlyByGreaterCount ==
    [][\A k \in DOMAIN id2rep :
          id2rep'[k] # id2rep[k] =>
              \E np \in DOMAIN np2id' :
                  /\ Observed(np)
                  /\ \A other \in DOMAIN np2count' :
                        Observed(other) => other = np
                  /\ np2id'[np] = k
                  /\ id2rep'[k] = np
                  /\ np2count'[np] > np2count'[id2rep[k]]
                  /\ \A j \in DOMAIN id2rep : j # k => id2rep'[j] = id2rep[j]]_vars

\* a key whose second variant, seen twice, has replaced the first, seen
\* once, as the representative
SecondVariantSeenTwiceIsRep ==
    \E k \in DOMAIN id2rep :
        /\ Len(id2group[k]) >= 2
        /\ id2rep[k] = id2group[k][2]
        /\ np2count[id2group[k][2]] = 2
        /\ np2count[id2group[k][1]] = 1

\* C18: a step that writes a token on its own while a span is active
\* writes a token whose range has no character in the range of the span.
VerbatimOnlyOutsideSpan ==
    [][( /\ span # None
         /\ Len(marked_corpus_file') = Len(marked_corpus_file) + 1
         /\ marked_corpus_file'[Len(marked_corpus_file')].site = "token" )
       => \/ doc.tokens[tk].idx + Len(doc.tokens[tk].text) <= span.start_char
          \/ doc.tokens[tk].idx >= span.end_char
          \/ span.start_char = span.end_char]_vars

----------------------------------------------------------------------------
(* The output line as a function of the line *)

RECURSIVE Written(_)
\* the characters written by the writes, in order
Written(writes) ==
    IF Len(writes) = 0 THEN <<>>
    ELSE Head(writes).text \o Written(Tail(writes))

\* what is written for the span sp under the marker mark, with grouping
\* (mode) or without: a function of the span's text and lemma
ItemOf(sp, mark, mode) ==
    IF Len(sp.text) <= 1 \/ sp.lemma = PRON THEN sp.text
    ELSE IF mode
    THEN LET key == spacy_normalizer(sp.text, sp.lemma)
         IN Replace(Replace(key, mark, <<" ">>), <<" ">>, mark) \o mark
    ELSE Replace(sp.text, <<" ">>, mark) \o mark

RECURSIVE LineOutput(_, _, _, _)
\* the output line of the tokens from position t on of the aligned line d:
\* a function of d, the marker and the mode
LineOutput(d, mark, mode, t) ==
    IF t > Len(d.tokens) THEN <<"\n">>
    ELSE LET starts == { s \in 1..Len(d.spans) :
                           d.spans[s].start_char = d.tokens[t].idx }
             within == { s \in 1..Len(d.spans) :
                           /\ d.spans[s].start_char < d.tokens[t].idx
                           /\ d.tokens[t].idx < d.spans[s].end_char }
             piece  == IF starts # {}
                       THEN ItemOf(d.spans[CHOOSE s \in starts : TRUE],
                                   mark, mode) \o <<" ">>
                       ELSE IF within # {} THEN <<>>
                       ELSE IF Printable(d.tokens[t])
                       THEN d.tokens[t].text \o <<" ">>
                       ELSE <<>>
         IN piece \o LineOutput(d, mark, mode, t + 1)

\* C19: when a line with aligned, ordered, non-overlapping spans is done,
\* what was written for it is the value of a function of the line, the
\* marker and the mode, whatever the tables held and whatever lines came
\* before.
OutputDeterminedByLine ==
    (LineDone /\ AlignedLine(doc)) =>
        Written(marked_corpus_file) = LineOutput(doc, mark_char, grouping, 1)

\* the second line is done, with grouping, and its only span is a text
\* that a line before it has entered into the tables under a key whose
\* representative is another text
SecondLineWithKnownText ==
    /\ LineDone
    /\ grouping
    /\ i = 2
    /\ Len(doc.spans) = 1
    /\ doc.spans[1].text \in DOMAIN np2count
    /\ np2count[doc.spans[1].text] = 2
    /\ id2rep[np2id[doc.spans[1].text]] # doc.spans[1].text

----------------------------------------------------------------------------
(* Properties of the Vocabulary *)

\* Vocabulary.word_id(word) and Vocabulary.id_to_word(wid); None when the
\* dict has no such key
word_id(word) == IF word \in DOMAIN vocab THEN vocab[word] ELSE None

id_to_word(wid) == IF wid \in DOMAIN rev_vocab THEN rev_vocab[wid] ELSE None

\* C20: id_to_word(word_id(w)) = w for every stored word and
\* word_id(id_to_word(n)) = n for every stored id; next is the id of no
\* word; and a call of add with a word that is stored returns the id the
\* word had and changes neither dict nor next.
VocabularyBijection ==
    /\ [](/\ \A word \in DOMAIN vocab : id_to_word(word_id(word)) = word
          /\ \A wid \in DOMAIN rev_vocab : word_id(id_to_word(wid)) = wid
          /\ next \notin DOMAIN rev_vocab
          /\ \A word \in DOMAIN vocab : vocab[word] # next)
    /\ [][( /\ vocab_call'.op = "add"
            /\ vocab_call'.arg \in DOMAIN vocab )
          => /\ vocab_call'.result = vocab[vocab_call'.arg]
             /\ vocab' = vocab
             /\ rev_vocab' = rev_vocab
             /\ next' = next]_vars

\* a Vocabulary of three words, started away from 0 and shifted by an
\* offset, on which add has just been called with a stored word
ShiftedVocabularyAddOfStoredWord ==
    /\ Cardinality(DOMAIN vocab) = 3
    /\ vocab_call # None
    /\ vocab_call.op = "add"
    /\ vocab_call.result # next - 1
    /\ next < 3

====
